---------------------------- MODULE Spec2Model ----------------------------
(***************************************************************************)
(* Model of spacex-dash-app.py: a Dash page over a launch table loaded     *)
(* once (spacex_df), a site dropdown, a payload range slider, and the two  *)
(* callbacks update_pie_chart and update_scatter_chart that recompute the  *)
(* pie and the scatter figure from the table and the controls' values.     *)
(*                                                                         *)
(* A row of the table is [site, payload, class].  A figure is kept as the  *)
(* data handed to plotly: the pie as its names and values columns, the     *)
(* scatter as its rows and its colour column.                              *)
(***************************************************************************)
EXTENDS Integers, Sequences, FiniteSets

VARIABLES
    spacex_df,       \* the table read from the csv file, a sequence of rows
    columns,         \* the optional booster columns the csv file has
    min_payload,     \* spacex_df['Payload Mass (kg)'].min()
    max_payload,     \* spacex_df['Payload Mass (kg)'].max()
    site_value,      \* property 'value' of the component site-dropdown
    slider_value,    \* property 'value' of the component payload-slider
    pie_figure,      \* property 'figure' of success-pie-chart
    scatter_figure,  \* property 'figure' of success-payload-scatter-chart
    pc               \* where the page is: its layout built, or serving

vars == <<spacex_df, columns, min_payload, max_payload, site_value,
          slider_value, pie_figure, scatter_figure, pc>>

-----------------------------------------------------------------------------
(* Bounds of the model and values of the language.                         *)

\* The longest table the model loads.
MaxRecords == 2

\* Python's None: the value of a cleared dropdown, and of color_col when the
\* table has no booster column.
None == "None"

\* A missing cell of the column 'Payload Mass (kg)' (NaN); every comparison
\* with it is false and min() and max() skip it.
NaN == -1

\* The value of the dropdown's option 'All Sites'.
ALL == "ALL"

\* Launch site names in ascending string order, the order groupby sorts its
\* keys in.  The rows of the table use the first and the last; the middle
\* one is a site no row has.
SiteOrder == <<"CCAFS", "KSC", "VAFB">>

Sites == {"CCAFS", "VAFB"}

\* Payload masses of the rows: one off the slider's steps, one on a step.
Payloads == {500, 3000}

Classes == {0, 1}

BoosterColumns == {"Booster Version Category", "Booster Version"}

Rows == [site : Sites, payload : Payloads \cup {NaN}, class : Classes]

\* Tables of 1..MaxRecords rows with at least one payload present (min() and
\* max() of the column are then numbers).
Tables ==
    { df \in UNION { [1..n -> Rows] : n \in 1..MaxRecords } :
        \E i \in DOMAIN df : df[i].payload # NaN }

-----------------------------------------------------------------------------
(* pandas                                                                  *)

\* Series.min() / Series.max() of the payload column, NaN skipped.
SeriesMin(df) ==
    CHOOSE m \in { df[i].payload : i \in DOMAIN df } \ {NaN} :
        \A i \in DOMAIN df : df[i].payload # NaN => m <= df[i].payload

SeriesMax(df) ==
    CHOOSE m \in { df[i].payload : i \in DOMAIN df } \ {NaN} :
        \A i \in DOMAIN df : df[i].payload # NaN => m >= df[i].payload

\* df[mask]: the rows whose mask entry is true, in the order of df.
RECURSIVE BoolIndex(_, _)
BoolIndex(df, mask) ==
    IF df = <<>> THEN <<>>
    ELSE (IF Head(mask) THEN <<Head(df)>> ELSE <<>>)
             \o BoolIndex(Tail(df), Tail(mask))

\* Sum of the column 'class' over the rows of df.
RECURSIVE SumClass(_)
SumClass(df) ==
    IF df = <<>> THEN 0 ELSE Head(df).class + SumClass(Tail(df))

\* df['Launch Site'] == site, elementwise.
SiteMask(df, site) == [i \in DOMAIN df |-> df[i].site = site]

\* The keys of df.groupby('Launch Site'): the distinct sites of df, sorted.
GroupKeys(df) ==
    LET present(s) == \E i \in DOMAIN df : df[i].site = s
        isKey(s) == present(s)
    IN  SelectSeq(SiteOrder, isKey)

groupby_count(df) ==
    LET keys == GroupKeys(df)
    IN  [names  |-> keys,
         values |-> [k \in DOMAIN keys |->
                        Len(BoolIndex(df, SiteMask(df, keys[k])))]]

\* df.groupby('Launch Site')['class'].sum().reset_index(): one row per
\* distinct site, in sorted order, with the sum of class over its rows.
groupby_sum(df) ==
    LET keys == GroupKeys(df)
    IN  [names  |-> keys,
         values |-> [k \in DOMAIN keys |->
                        SumClass(BoolIndex(df, SiteMask(df, keys[k])))]]

\* site_df['class'].value_counts(): the number of rows per value of class
\* that occurs; values that do not occur have no entry.
value_counts(df) ==
    [c \in { df[i].class : i \in DOMAIN df } |->
        Cardinality({ i \in DOMAIN df : df[i].class = c })]

rename_swapped(counts) ==
    LET label(c) == IF c = 1 THEN "Failure" ELSE "Success"
    IN  [l \in { label(c) : c \in DOMAIN counts } |->
            counts[CHOOSE c \in DOMAIN counts : label(c) = l]]

\* .rename(index={1: 'Success', 0: 'Failure'})
rename(counts) ==
    LET label(c) == IF c = 1 THEN "Success" ELSE "Failure"
    IN  [l \in { label(c) : c \in DOMAIN counts } |->
            counts[CHOOSE c \in DOMAIN counts : label(c) = l]]

reindex_dropping(counts) ==
    LET index == <<"Success", "Failure">>
        has(l) == l \in DOMAIN counts
        kept  == SelectSeq(index, has)
    IN  [names  |-> kept,
         values |-> [k \in DOMAIN kept |-> counts[kept[k]]]]

\* .reindex(['Success', 'Failure'], fill_value=0) and reset_index(): the two
\* labels in this order, a label without an entry filled with 0.
reindex(counts) ==
    LET index == <<"Success", "Failure">>
    IN  [names  |-> index,
         values |-> [k \in DOMAIN index |->
                        IF index[k] \in DOMAIN counts
                        THEN counts[index[k]] ELSE 0]]

-----------------------------------------------------------------------------
(* The layout                                                              *)

\* spacex_df['Launch Site'].unique(): the distinct sites, first seen first.
RECURSIVE unique(_)
unique(df) ==
    IF df = <<>> THEN <<>>
    ELSE LET s == Head(df).site
             other(r) == r.site # s
         IN  <<s>> \o unique(SelectSeq(Tail(df), other))

site_dropdown_fixed_options == <<ALL>> \o SiteOrder

\* The option values of site-dropdown.
site_dropdown_options == <<ALL>> \o unique(spacex_df)

\* min, max and step of payload-slider.
SliderMin == 0
SliderMax == 10000
SliderStep == 1000

payload_slider_positions_wide ==
    { p \in SliderMin..(SliderMax + 2 * SliderStep) :
        (p - SliderMin) % SliderStep = 0 }

\* The positions a handle of payload-slider can be put on.
payload_slider_positions ==
    { p \in SliderMin..SliderMax : (p - SliderMin) % SliderStep = 0 }

-----------------------------------------------------------------------------
(* The callbacks                                                           *)

update_pie_chart_in_range(selected_site) ==
    LET inRange == [i \in DOMAIN spacex_df |->
                       /\ spacex_df[i].payload # NaN
                       /\ spacex_df[i].payload >= slider_value[1]
                       /\ spacex_df[i].payload <= slider_value[2]]
        df == BoolIndex(spacex_df, inRange)
    IN  IF selected_site = ALL
        THEN LET pie_df == groupby_sum(df)
             IN  [names |-> pie_df.names, values |-> pie_df.values,
                  title |-> <<"Total Successful Launches by Site">>]
        ELSE LET site_df == BoolIndex(df, SiteMask(df, selected_site))
                 pie_df == reindex(rename(value_counts(site_df)))
             IN  [names |-> pie_df.names, values |-> pie_df.values,
                  title |-> <<"Success vs. Failure for site: ", selected_site>>]

update_pie_chart(selected_site) ==
    IF selected_site = ALL
    THEN LET pie_df == groupby_sum(spacex_df)
         IN  [names |-> pie_df.names, values |-> pie_df.values,
              title |-> <<"Total Successful Launches by Site">>]
    ELSE LET site_df == BoolIndex(spacex_df, SiteMask(spacex_df, selected_site))
             counts == reindex(rename(value_counts(site_df)))
         IN  [names |-> counts.names, values |-> counts.values,
              title |-> <<"Success vs. Failure for site: ", selected_site>>]

payload_mask_strict(df, low, high) ==
    [i \in DOMAIN df |->
        /\ df[i].payload # NaN
        /\ df[i].payload >= low
        /\ df[i].payload < high]

payload_mask_or(df, low, high) ==
    [i \in DOMAIN df |->
        /\ df[i].payload # NaN
        /\ (df[i].payload >= low \/ df[i].payload <= high)]

\* (df['Payload Mass (kg)'] >= low) & (df['Payload Mass (kg)'] <= high)
payload_mask(df, low, high) ==
    [i \in DOMAIN df |->
        /\ df[i].payload # NaN
        /\ df[i].payload >= low
        /\ df[i].payload <= high]

color_col_raw_first(cols) ==
    IF "Booster Version" \in cols THEN "Booster Version"
    ELSE IF "Booster Version Category" \in cols THEN "Booster Version Category"
    ELSE None

\* The booster column the scatter is coloured by, None for no colouring.
color_col(cols) ==
    IF "Booster Version Category" \in cols THEN "Booster Version Category"
    ELSE IF "Booster Version" \in cols THEN "Booster Version"
    ELSE None

update_scatter_chart(selected_site, payload_range) ==
    LET low  == payload_range[1]
        high == payload_range[2]
        filtered_df == BoolIndex(spacex_df, payload_mask(spacex_df, low, high))
        scatter_df ==
            IF selected_site = ALL THEN filtered_df
            ELSE BoolIndex(filtered_df, SiteMask(filtered_df, selected_site))
        title ==
            IF selected_site = ALL THEN <<"Payload vs Outcome for all sites">>
            ELSE <<"Payload vs Outcome for ", selected_site>>
    IN  [points |-> scatter_df, color |-> color_col(columns), title |-> title]

-----------------------------------------------------------------------------
(* The page: what the browser and Dash do with the layout                  *)

\* A dcc.Graph of the layout before its callback has returned a figure.
NoPie == [names |-> <<>>, values |-> <<>>, title |-> <<>>]

NoScatter == [points |-> <<>>, color |-> None, title |-> <<>>]

\* The page is served from a csv file that has both booster columns; files
\* with one or none of them are loaded under SpecFn.
PageColumnSets == {BoosterColumns}

\* The csv file is read and the layout is built: the controls have their
\* initial values and the graphs no figure.
Layout(columnSets) ==
    /\ spacex_df \in Tables
    /\ columns \in columnSets
    /\ min_payload = SeriesMin(spacex_df)
    /\ max_payload = SeriesMax(spacex_df)
    /\ site_value = ALL
    /\ slider_value = <<min_payload, max_payload>>
    /\ pie_figure = NoPie
    /\ scatter_figure = NoScatter

Init ==
    /\ pc = "layout"
    /\ Layout(PageColumnSets)

\* The page is opened: Dash calls both callbacks once with the controls'
\* initial values.
PageLoad ==
    /\ pc = "layout"
    /\ pc' = "serving"
    /\ pie_figure' = update_pie_chart(site_value)
    /\ scatter_figure' = update_scatter_chart(site_value, slider_value)
    /\ UNCHANGED <<spacex_df, columns, min_payload, max_payload,
                   site_value, slider_value>>

\* A change of site-dropdown's value triggers both callbacks.
SetSite(site) ==
    /\ pc = "serving"
    /\ site # site_value
    /\ site_value' = site
    /\ pie_figure' = update_pie_chart(site)
    /\ scatter_figure' = update_scatter_chart(site, slider_value)
    /\ UNCHANGED <<pc, spacex_df, columns, min_payload, max_payload,
                   slider_value>>

\* The user picks one of the dropdown's options.
SelectSite ==
    \E k \in DOMAIN site_dropdown_options : SetSite(site_dropdown_options[k])

\* The user clears the dropdown (it is clearable unless the layout says
\* otherwise, and then shows its placeholder): its value becomes None.
ClearSite == SetSite(None)

MoveSliderCached(handle, pos) ==
    LET moved  == [slider_value EXCEPT ![handle] = pos]
        sorted == IF moved[1] <= moved[2] THEN moved ELSE <<moved[2], moved[1]>>
        prev   == scatter_figure.points
        kept   == BoolIndex(prev, payload_mask(prev, sorted[1], sorted[2]))
    IN  /\ pc = "serving"
        /\ pos \in payload_slider_positions
        /\ sorted # slider_value
        /\ slider_value' = sorted
        /\ scatter_figure' = [scatter_figure EXCEPT !.points = kept]
        /\ UNCHANGED <<pc, spacex_df, columns, min_payload, max_payload,
                       site_value, pie_figure>>

\* The user drags one handle of the range slider to a position; the slider
\* reports its two values in ascending order.  A change of payload-slider's
\* value triggers update_scatter_chart alone.
MoveSlider(handle, pos) ==
    LET moved  == [slider_value EXCEPT ![handle] = pos]
        sorted == IF moved[1] <= moved[2] THEN moved ELSE <<moved[2], moved[1]>>
    IN  /\ pc = "serving"
        /\ pos \in payload_slider_positions
        /\ sorted # slider_value
        /\ slider_value' = sorted
        /\ scatter_figure' = update_scatter_chart(site_value, sorted)
        /\ UNCHANGED <<pc, spacex_df, columns, min_payload, max_payload,
                       site_value, pie_figure>>

DragSlider ==
    \E handle \in 1..2 : \E pos \in payload_slider_positions :
        MoveSlider(handle, pos)

Next == PageLoad \/ SelectSite \/ ClearSite \/ DragSlider

Spec == Init /\ [][Next]_vars

-----------------------------------------------------------------------------
(* The callbacks as functions: any site and any range as arguments         *)

SiteInputs == {ALL, None} \cup { SiteOrder[k] : k \in DOMAIN SiteOrder }

RangeInputs == {0, 500, 3000, 10000}

\* A table with any of the booster columns is loaded; no callback has been
\* called.
InitFn ==
    /\ pc = "args"
    /\ Layout(SUBSET BoosterColumns)

\* Both callbacks are called with a site and a (low, high) of the caller's
\* choice, whatever the controls would offer, and return their figures.
Call(site, low, high) ==
    /\ pc = "args"
    /\ pc' = "returned"
    /\ site_value' = site
    /\ slider_value' = <<low, high>>
    /\ pie_figure' = update_pie_chart(site)
    /\ scatter_figure' = update_scatter_chart(site, <<low, high>>)
    /\ UNCHANGED <<spacex_df, columns, min_payload, max_payload>>

NextFn ==
    \E site \in SiteInputs : \E low \in RangeInputs : \E high \in RangeInputs :
        Call(site, low, high)

SpecFn == InitFn /\ [][NextFn]_vars

-----------------------------------------------------------------------------
(* What the properties below are stated with: the table read row by row,   *)
(* without the operators the callbacks are modelled by.                    *)

Returned == pc = "returned"

Serving == pc = "serving"

low == slider_value[1]

high == slider_value[2]

RowsOf(df, site) == { i \in DOMAIN df : df[i].site = site }

HasSite(df, site) == RowsOf(df, site) # {}

NumWith(df, site, class) ==
    Cardinality({ i \in RowsOf(df, site) : df[i].class = class })

Rank(s) == CHOOSE k \in DOMAIN SiteOrder : SiteOrder[k] = s

RECURSIVE SumSeq(_)
SumSeq(q) == IF q = <<>> THEN 0 ELSE Head(q) + SumSeq(Tail(q))

\* The rows a scatter for (site, lo, hi) is to show.
Qualifying(df, site, lo, hi) ==
    { i \in DOMAIN df :
        /\ df[i].payload # NaN
        /\ lo <= df[i].payload
        /\ df[i].payload <= hi
        /\ (site = ALL \/ df[i].site = site) }

\* The rows of df with their index in the set idx, in the order of df.
Subsequence(df, idx) ==
    [k \in 1..Cardinality(idx) |->
        df[CHOOSE i \in idx : Cardinality({ j \in idx : j < i }) = k - 1]]

PointsRef(df, site, lo, hi) == Subsequence(df, Qualifying(df, site, lo, hi))

\* The sites of df, each once, in ascending order of their names.
SortedSites(df) ==
    LET present == { df[i].site : i \in DOMAIN df }
        n == Cardinality(present)
    IN  CHOOSE q \in [1..n -> present] :
            \A j, k \in 1..n : j < k => Rank(q[j]) < Rank(q[k])

PieNamesRef(df, site) ==
    IF site = ALL THEN SortedSites(df) ELSE <<"Success", "Failure">>

PieValuesRef(df, site) ==
    IF site = ALL
    THEN LET q == SortedSites(df)
         IN  [k \in DOMAIN q |-> NumWith(df, q[k], 1)]
    ELSE <<NumWith(df, site, 1), NumWith(df, site, 0)>>

-----------------------------------------------------------------------------
(* Properties                                                              *)

\* C1 as stated: a site that is neither ALL nor the site of any row gives a
\* pie of zero pairs and a scatter of zero points.
CexC1 ==
    (Returned /\ site_value # ALL /\ ~HasSite(spacex_df, site_value))
        => /\ Len(pie_figure.names) = 0
           /\ Len(pie_figure.values) = 0
           /\ Len(scatter_figure.points) = 0

\* C1 amended: a site that is neither ALL nor the site of any row gives the
\* pie of the two pairs ("Success", 0), ("Failure", 0) and a scatter of zero
\* points; both callbacks return.
ThmC1 ==
    (Returned /\ site_value # ALL /\ ~HasSite(spacex_df, site_value))
        => /\ pie_figure.names = <<"Success", "Failure">>
           /\ pie_figure.values = <<0, 0>>
           /\ scatter_figure.points = <<>>

\* An unknown site was given with a range that holds a row of the table.
WitC1 ==
    /\ Returned
    /\ site_value = "KSC"
    /\ Qualifying(spacex_df, ALL, low, high) # {}

\* C2: for a site s of some row the pie is the two pairs ("Success", a),
\* ("Failure", b) in this order, a the number of rows of s with class 1, b the
\* number with class 0, a + b the number of rows of s; a count of 0 is kept.
ThmC2 ==
    (Returned /\ HasSite(spacex_df, site_value))
        => /\ pie_figure.names = <<"Success", "Failure">>
           /\ Len(pie_figure.values) = 2
           /\ pie_figure.values[1] = NumWith(spacex_df, site_value, 1)
           /\ pie_figure.values[2] = NumWith(spacex_df, site_value, 0)
           /\ pie_figure.values[1] + pie_figure.values[2]
                  = Cardinality(RowsOf(spacex_df, site_value))

\* A site all of whose rows are successes, in a table that has a failure of
\* another site: the pair ("Failure", 0) is there.
WitC2 ==
    /\ Returned
    /\ HasSite(spacex_df, site_value)
    /\ pie_figure.values[1] > 0
    /\ pie_figure.values[2] = 0
    /\ \E i \in DOMAIN spacex_df : spacex_df[i].class = 0

\* C3: for ALL the pie has one pair per distinct site of the table, the sites
\* in ascending order of their names, each with the sum of class over its
\* rows (0 for a site without a success), and the counts add up to the number
\* of rows of the table with class 1.
ThmC3 ==
    (Returned /\ site_value = ALL)
        => LET names  == pie_figure.names
               values == pie_figure.values
           IN  /\ DOMAIN values = DOMAIN names
               /\ { names[k] : k \in DOMAIN names }
                      = { spacex_df[i].site : i \in DOMAIN spacex_df }
               /\ \A j, k \in DOMAIN names :
                      j < k => Rank(names[j]) < Rank(names[k])
               /\ \A k \in DOMAIN names :
                      values[k] = NumWith(spacex_df, names[k], 1)
               /\ SumSeq(values)
                      = Cardinality({ i \in DOMAIN spacex_df :
                                        spacex_df[i].class = 1 })

\* Two sites, the later name in the first row, one of them without a success.
WitC3 ==
    /\ Returned
    /\ site_value = ALL
    /\ Len(pie_figure.names) = 2
    /\ spacex_df[1].site = pie_figure.names[2]
    /\ pie_figure.values[1] = 0
    /\ pie_figure.values[2] > 0

\* C4: the scatter's points are the rows of the table, in the table's order,
\* whose payload is present and within low..high, both ends included, and
\* whose site is the selected one unless ALL is selected; no other row, and
\* every such row.
ThmC4 ==
    Returned
        => scatter_figure.points
               = Subsequence(spacex_df,
                             Qualifying(spacex_df, site_value, low, high))

\* A site is selected; a row with its payload on the upper end of the range
\* is shown, and a row of the table is not.
WitC4 ==
    /\ Returned
    /\ site_value # ALL
    /\ \E k \in DOMAIN scatter_figure.points :
           scatter_figure.points[k].payload = high
    /\ Len(scatter_figure.points) < Len(spacex_df)

CexC6 == site_value = ALL \/ HasSite(spacex_df, site_value)

\* C6 amended: the dropdown's options are ALL and the distinct sites of the
\* table, each once, and its initial value is ALL; in every state the
\* selected site is ALL, the site of some row, or none (the dropdown cleared).
ThmC6 ==
    LET options == site_dropdown_options
        sites == { spacex_df[i].site : i \in DOMAIN spacex_df }
    IN  /\ { options[k] : k \in DOMAIN options } = {ALL} \cup sites
        /\ Len(options) = 1 + Cardinality(sites)
        /\ pc = "layout" => site_value = ALL
        /\ site_value \in {ALL, None} \cup sites

\* The dropdown has been cleared.
WitC6 ==
    /\ Serving
    /\ site_value = None
    /\ pie_figure.values = <<0, 0>>

\* C7: with low > high the scatter has no point, for every site and for ALL,
\* and the callback returns.
ThmC7 ==
    (Returned /\ low > high)
        => scatter_figure.points = <<>>

\* ALL with low > high, and a row whose payload lies between the two.
WitC7 ==
    /\ Returned
    /\ site_value = ALL
    /\ low > high
    /\ \E i \in DOMAIN spacex_df :
           /\ spacex_df[i].payload # NaN
           /\ high <= spacex_df[i].payload
           /\ spacex_df[i].payload <= low

\* C8: the scatter is coloured by 'Booster Version Category' if the table has
\* that column, with or without 'Booster Version'; else by 'Booster Version'
\* if the table has that; else by nothing.  The site and the range given do
\* not matter.
ThmC8 ==
    Returned
        => /\ "Booster Version Category" \in columns
               => scatter_figure.color = "Booster Version Category"
           /\ ("Booster Version Category" \notin columns
                   /\ "Booster Version" \in columns)
               => scatter_figure.color = "Booster Version"
           /\ columns \cap BoosterColumns = {}
               => scatter_figure.color = None

\* Both columns, a site selected, a narrowed range.
WitC8 ==
    /\ Returned
    /\ columns = BoosterColumns
    /\ site_value # ALL
    /\ slider_value # <<min_payload, max_payload>>
    /\ scatter_figure.color = "Booster Version Category"

\* C9: no step changes the table or the payload bounds computed at load, and
\* after every change of site or range the figures are those of the table
\* as loaded and the selection as it now is, whatever was selected or shown
\* before.
ThmC9 ==
    [][ /\ spacex_df' = spacex_df
        /\ columns' = columns
        /\ min_payload' = min_payload
        /\ max_payload' = max_payload
        /\ pie_figure'.names = PieNamesRef(spacex_df, site_value')
        /\ pie_figure'.values = PieValuesRef(spacex_df, site_value')
        /\ scatter_figure'.points
               = PointsRef(spacex_df, site_value', slider_value'[1],
                           slider_value'[2]) ]_vars

\* After changes of both controls: a site is selected and the range has been
\* dragged beyond the table's payloads on both sides; rows are shown.
WitC9 ==
    /\ Serving
    /\ site_value # ALL
    /\ low < min_payload
    /\ high > max_payload
    /\ Len(scatter_figure.points) >= 1

\* C10: a change of the range alone leaves the pie as it is and recomputes
\* the scatter; a change of site recomputes both; the pie counts all rows of
\* the table, also those outside the selected range.
ThmC10 ==
    [][ Serving =>
          /\ site_value' = site_value
                => /\ pie_figure' = pie_figure
                   /\ scatter_figure'.points
                          = PointsRef(spacex_df, site_value, slider_value'[1],
                                      slider_value'[2])
          /\ site_value' # site_value
                => /\ slider_value' = slider_value
                   /\ pie_figure'.names = PieNamesRef(spacex_df, site_value')
                   /\ pie_figure'.values = PieValuesRef(spacex_df, site_value')
                   /\ scatter_figure'.points
                          = PointsRef(spacex_df, site_value', low, high)
          /\ SumSeq(pie_figure'.values)
                = IF site_value' = ALL
                  THEN Cardinality({ i \in DOMAIN spacex_df :
                                       spacex_df[i].class = 1 })
                  ELSE Cardinality(RowsOf(spacex_df, site_value')) ]_vars

\* A site is selected and the range leaves out one of its rows, which the
\* pie counts.
WitC10 ==
    /\ Serving
    /\ site_value # ALL
    /\ slider_value # <<min_payload, max_payload>>
    /\ SumSeq(pie_figure.values) > Len(scatter_figure.points)
    /\ Len(scatter_figure.points) >= 1

=============================================================================
